---- MODULE Spec2Model ----
(***************************************************************************)
(* A model of the movie knowledge graph: MovieGraph.build_graph and the    *)
(* MovieGraph query operations (src/network_setup.py) together with the    *)
(* tool classes that wrap them (src/agentic_tools.py), and the vector      *)
(* index MovieFAISS (src/faiss_setup.py) behind FaissTool.                 *)
(*                                                                         *)
(* Python values are modelled as follows.                                  *)
(*   str    a sequence of one-character strings                            *)
(*   int    an integer                                                     *)
(*   a node identifier or a query argument, which may be an int or a str,  *)
(*          is tagged: <<"int", n>> or <<"str", s>>                        *)
(*   None / an absent dictionary key   <<>> ; a present value v   <<v>>    *)
(*   a list passed where an int or a str is expected   <<"list", s>>       *)
(* The MultiDiGraph is a record [nodes, edges]: nodes is the node          *)
(* dictionary in insertion order, edges the edges in insertion order.      *)
(***************************************************************************)
EXTENDS Integers, Sequences, FiniteSets, TLC

VARIABLES movies_df, Graph, pc, i, j, actor_nodes, director_nodes, builds,
          call, ret, movie_faiss

vars == <<movies_df, Graph, pc, i, j, actor_nodes, director_nodes, builds,
          call, ret, movie_faiss>>

(***************************************************************************)
(* Bounds of the model.                                                    *)
(***************************************************************************)
MaxCredits == 3
MaxQueryCredits == 1
MaxIds == 3
MaxHops == 3
MaxBuilds == 2
MaxPathCredits == 2
MaxTopK == 3

(***************************************************************************)
(* Python strings.                                                         *)
(***************************************************************************)
UpperCase == <<"A","B","C","D","E","F","G","H","I","J","K","L","M",
               "N","O","P","Q","R","S","T","U","V","W","X","Y","Z">>
LowerCase == <<"a","b","c","d","e","f","g","h","i","j","k","l","m",
               "n","o","p","q","r","s","t","u","v","w","x","y","z">>

LowerChar(c) ==
  IF \E k \in 1..Len(UpperCase) : UpperCase[k] = c
    THEN LowerCase[CHOOSE k \in 1..Len(UpperCase) : UpperCase[k] = c]
    ELSE c

\* str.lower()
Lower(s) == [k \in 1..Len(s) |-> LowerChar(s[k])]

\* str.strip(): leading and trailing whitespace removed
Strip(s) ==
  LET keep == {k \in 1..Len(s) : s[k] # " "}
  IN IF keep = {} THEN <<>>
     ELSE SubSeq(s, CHOOSE k \in keep : \A m \in keep : k <= m,
                    CHOOSE k \in keep : \A m \in keep : m <= k)

\* s.split("-")[0]
SplitDashFirst(s) ==
  LET dash == {k \in 1..Len(s) : s[k] = "-"}
  IN IF dash = {} THEN s
     ELSE SubSeq(s, 1, (CHOOSE k \in dash : \A m \in dash : k <= m) - 1)

PyInt(n) == <<"int", n>>
PyStr(s) == <<"str", s>>
IsInt(v) == v[1] = "int"
PyList(s) == <<"list", s>>
\* a list cannot be hashed: it is no key of a dict and no member of a set
IsHashable(v) == v[1] # "list"
None == <<>>
Some(v) == <<v>>

(***************************************************************************)
(* The fixed relation names and their forward/inverse pairing.             *)
(***************************************************************************)
RelationPairs ==
  { <<"MOVIE_HAS_ACTOR", "ACTED_IN_MOVIES">>,
    <<"MOVIE_HAS_DIRECTOR", "DIRECTED_MOVIES">>,
    <<"MOVIE_HAS_PRODUCER", "PRODUCED_MOVIES">>,
    <<"MOVIE_HAS_WRITER", "WROTE_MOVIES">>,
    <<"MOVIE_HAS_SUPPORTING_CREW", "SUPPORTED_MOVIES">>,
    <<"MOVIE_HAS_GENRE", "GENRE_OF_MOVIES">>,
    <<"MOVIE_RELEASED_ON", "YEAR_RELEASED_MOVIES">>,
    <<"ACTOR_WORKED_WITH_DIRECTOR", "DIRECTOR_WORKED_WITH_ACTOR">> }

Relations == {p[1] : p \in RelationPairs} \cup {p[2] : p \in RelationPairs}

Roles == {"actor", "director", "producer", "writer", "supporting_crew"}

(***************************************************************************)
(* networkx.MultiDiGraph as build_graph and the queries use it.            *)
(***************************************************************************)
EmptyGraph == [nodes |-> <<>>, edges |-> <<>>]

NodeIds(G) == {G.nodes[k].id : k \in 1..Len(G.nodes)}

\* n in G
HasNode(G, n) == n \in NodeIds(G)

\* G.nodes[n], for n in G
NodeData(G, n) == G.nodes[CHOOSE k \in 1..Len(G.nodes) : G.nodes[k].id = n]

\* dict.update: a key given in attrs replaces the stored one
UpdateAttrs(old, attrs) ==
  [id |-> old.id,
   label |-> IF attrs.label # None THEN attrs.label ELSE old.label,
   title |-> IF attrs.title # None THEN attrs.title ELSE old.title,
   launch_year |-> IF attrs.launch_year # None THEN attrs.launch_year
                   ELSE old.launch_year,
   roles |-> IF attrs.roles # None THEN attrs.roles ELSE old.roles]

NoAttrs == [label |-> None, title |-> None, launch_year |-> None, roles |-> None]

\* a faulty add_node that stores a second entry for a known identifier
AddNodeAppend(G, n, attrs) ==
  [G EXCEPT !.nodes = Append(@, UpdateAttrs([id |-> n] @@ NoAttrs, attrs))]

\* G.add_node(n, **attrs): a new entry for an unknown identifier, else
\* the attributes of the existing entry are updated
AddNode(G, n, attrs) ==
  IF HasNode(G, n)
    THEN [G EXCEPT !.nodes =
            [k \in 1..Len(@) |-> IF @[k].id = n THEN UpdateAttrs(@[k], attrs)
                                 ELSE @[k]]]
    ELSE [G EXCEPT !.nodes = Append(@, UpdateAttrs([id |-> n] @@ NoAttrs, attrs))]

\* G.add_edge(u, v, relation=r): always a new parallel edge
AddEdge(G, u, v, r) ==
  [G EXCEPT !.edges = Append(@, [u |-> u, v |-> v, relation |-> r])]

\* G.nodes[n].setdefault("roles", set()).add(role)
AddRole(G, n, role) ==
  [G EXCEPT !.nodes =
     [k \in 1..Len(@) |->
        IF @[k].id = n
          THEN [@[k] EXCEPT !.roles =
                  IF @ = None THEN Some({role}) ELSE Some(@[1] \cup {role})]
          ELSE @[k]]]

\* the number of parallel edges u -> v carrying relation r
CountEdges(G, u, v, r) ==
  Cardinality({k \in 1..Len(G.edges) :
                 G.edges[k] = [u |-> u, v |-> v, relation |-> r]})

(***************************************************************************)
(* build_graph: the body of the loop over the rows of movies_df, one       *)
(* operator per block of the body.                                         *)
(***************************************************************************)
DirectorJob == <<"d","i","r","e","c","t","o","r">>
ProducerJob == <<"p","r","o","d","u","c","e","r">>
WriterJob == <<"w","r","i","t","e","r">>

\* job = member["job"].strip().lower(), collapsed to supporting_crew
JobOf(member) ==
  LET job == Lower(Strip(member.job))
  IN CASE job = DirectorJob -> "director"
       [] job = ProducerJob -> "producer"
       [] job = WriterJob -> "writer"
       [] OTHER -> "supporting_crew"

\* f"MOVIE_HAS_{job.upper()}"
MovieHasRelation(job) ==
  CASE job = "director" -> "MOVIE_HAS_DIRECTOR"
    [] job = "producer" -> "MOVIE_HAS_PRODUCER"
    [] job = "writer" -> "MOVIE_HAS_WRITER"
    [] OTHER -> "MOVIE_HAS_SUPPORTING_CREW"

\* a faulty chain of branches that lacks the one for the writer
CrewRelationNoWriter(job) ==
  CASE job = "director" -> "DIRECTED_MOVIES"
    [] job = "producer" -> "PRODUCED_MOVIES"
    [] OTHER -> "SUPPORTED_MOVIES"

\* the relation of the edge from the crew member back to the movie
CrewRelation(job) ==
  CASE job = "director" -> "DIRECTED_MOVIES"
    [] job = "producer" -> "PRODUCED_MOVIES"
    [] job = "writer" -> "WROTE_MOVIES"
    [] OTHER -> "SUPPORTED_MOVIES"

LaunchYear(row) == SplitDashFirst(row.release_date)

\* a faulty step that links the movie to its year only when the year is new
MovieStepNewYearOnly(G, row) ==
  LET movie_id == PyInt(row.id)
      launch_year == LaunchYear(row)
      G1 == AddNode(G, movie_id,
                    [label |-> Some("movie"),
                     title |-> Some(Lower(Strip(row.title))),
                     launch_year |-> Some(launch_year),
                     roles |-> None])
      G2 == AddNode(G1, PyStr(launch_year), [NoAttrs EXCEPT !.label = Some("date")])
      G3 == AddEdge(G2, movie_id, PyStr(launch_year), "MOVIE_RELEASED_ON")
  IN IF HasNode(G1, PyStr(launch_year)) THEN G2
     ELSE AddEdge(G3, PyStr(launch_year), movie_id, "YEAR_RELEASED_MOVIES")

\* the movie node, the date node and the release edge pair
MovieStep(G, row) ==
  LET movie_id == PyInt(row.id)
      launch_year == LaunchYear(row)
      G1 == AddNode(G, movie_id,
                    [label |-> Some("movie"),
                     title |-> Some(Lower(Strip(row.title))),
                     launch_year |-> Some(launch_year),
                     roles |-> None])
      G2 == AddNode(G1, PyStr(launch_year), [NoAttrs EXCEPT !.label = Some("date")])
      G3 == AddEdge(G2, movie_id, PyStr(launch_year), "MOVIE_RELEASED_ON")
  IN AddEdge(G3, PyStr(launch_year), movie_id, "YEAR_RELEASED_MOVIES")

\* one iteration of the loop over the genres
GenreStep(G, row, g) ==
  LET movie_id == PyInt(row.id)
      genre_name == PyStr(Lower(Strip(g)))
      G1 == AddNode(G, genre_name, [NoAttrs EXCEPT !.label = Some("genre")])
      G2 == AddEdge(G1, movie_id, genre_name, "MOVIE_HAS_GENRE")
  IN AddEdge(G2, genre_name, movie_id, "GENRE_OF_MOVIES")

\* a faulty role update that overwrites the roles of a known person
PersonNodeOverwrite(G, name, role) ==
  AddNode(G, name, [NoAttrs EXCEPT !.label = Some("person"), !.roles = Some({role})])

\* the person node of a cast or crew record: created with the one role,
\* or the role added to the roles of the existing node
PersonNode(G, name, role) ==
  IF ~HasNode(G, name)
    THEN AddNode(G, name,
                 [NoAttrs EXCEPT !.label = Some("person"), !.roles = Some({role})])
    ELSE AddRole(G, name, role)

ActorName(c) == PyStr(Lower(Strip(c)))

\* one iteration of the loop over the cast
ActorStep(G, row, c) ==
  LET movie_id == PyInt(row.id)
      actor_name == ActorName(c)
      G1 == PersonNode(G, actor_name, "actor")
      G2 == AddEdge(G1, movie_id, actor_name, "MOVIE_HAS_ACTOR")
  IN AddEdge(G2, actor_name, movie_id, "ACTED_IN_MOVIES")

CrewName(member) == PyStr(Lower(Strip(member.name)))

\* one iteration of the loop over the crew
CrewStep(G, row, member) ==
  LET movie_id == PyInt(row.id)
      job == JobOf(member)
      crew_member_name == CrewName(member)
      G1 == PersonNode(G, crew_member_name, job)
      G2 == AddEdge(G1, movie_id, crew_member_name, MovieHasRelation(job))
  IN AddEdge(G2, crew_member_name, movie_id, CrewRelation(job))

\* director_nodes after the crew record
DirectorsAfter(directors, member) ==
  IF JobOf(member) = "director" THEN Append(directors, CrewName(member))
  ELSE directors

RECURSIVE PairDirectors(_, _, _)
\* for director in director_nodes: the worked-with edge pair
PairDirectors(G, actor, directors) ==
  IF directors = <<>> THEN G
  ELSE LET director == Head(directors)
           G1 == AddEdge(G, actor, director, "ACTOR_WORKED_WITH_DIRECTOR")
           G2 == AddEdge(G1, director, actor, "DIRECTOR_WORKED_WITH_ACTOR")
       IN PairDirectors(G2, actor, Tail(directors))

RECURSIVE PairStep(_, _, _)
\* for actor in actor_nodes: for director in director_nodes
PairStep(G, actors, directors) ==
  IF actors = <<>> THEN G
  ELSE PairStep(PairDirectors(G, Head(actors), directors), Tail(actors), directors)

(***************************************************************************)
(* build_graph as a function of the table: the loop body applied to the    *)
(* rows in order, starting from the empty graph.                           *)
(***************************************************************************)
RECURSIVE GenreSteps(_, _, _)
GenreSteps(G, row, genres) ==
  IF genres = <<>> THEN G
  ELSE GenreSteps(GenreStep(G, row, Head(genres)), row, Tail(genres))

RECURSIVE ActorSteps(_, _, _)
ActorSteps(G, row, cast) ==
  IF cast = <<>> THEN G
  ELSE ActorSteps(ActorStep(G, row, Head(cast)), row, Tail(cast))

RECURSIVE CrewSteps(_, _, _)
CrewSteps(G, row, crew) ==
  IF crew = <<>> THEN G
  ELSE CrewSteps(CrewStep(G, row, Head(crew)), row, Tail(crew))

\* actor_nodes at the end of the cast loop
ActorNodes(row) == [k \in 1..Len(row.cast) |-> ActorName(row.cast[k])]

RECURSIVE DirectorNodesOf(_)
DirectorNodesOf(crew) ==
  IF crew = <<>> THEN <<>>
  ELSE LET front == DirectorNodesOf(SubSeq(crew, 1, Len(crew) - 1))
       IN DirectorsAfter(front, crew[Len(crew)])

\* director_nodes at the end of the crew loop
DirectorNodes(row) == DirectorNodesOf(row.crew)

\* the loop body for one row
ProcessRow(G, row) ==
  LET G1 == MovieStep(G, row)
      G2 == GenreSteps(G1, row, row.genres)
      G3 == ActorSteps(G2, row, row.cast)
      G4 == CrewSteps(G3, row, row.crew)
  IN PairStep(G4, ActorNodes(row), DirectorNodes(row))

RECURSIVE BuildFrom(_, _)
BuildFrom(G, rows) ==
  IF rows = <<>> THEN G ELSE BuildFrom(ProcessRow(G, Head(rows)), Tail(rows))

\* the graph of a freshly constructed MovieGraph
BuildGraph(rows) == BuildFrom(EmptyGraph, rows)

(***************************************************************************)
(* The adjacency view of the graph that the queries iterate over.          *)
(***************************************************************************)
RECURSIVE Dedup(_)
\* the distinct elements of s in the order of their first occurrence
Dedup(s) ==
  IF s = <<>> THEN <<>>
  ELSE LET front == Dedup(SubSeq(s, 1, Len(s) - 1))
           last == s[Len(s)]
       IN IF \E k \in 1..Len(front) : front[k] = last THEN front
          ELSE Append(front, last)

EdgesFrom(G, u) == SelectSeq(G.edges, LAMBDA e : e.u = u)

\* G.neighbors(u): the successors of u in the order they were first linked
Neighbors(G, u) ==
  LET out == EdgesFrom(G, u)
  IN Dedup([k \in 1..Len(out) |-> out[k].v])

\* G[u][v]: the parallel edges u -> v in key order
EdgesBetween(G, u, v) == SelectSeq(G.edges, LAMBDA e : e.u = u /\ e.v = v)

RECURSIVE FlattenEdges(_, _, _)
FlattenEdges(G, u, nbrs) ==
  IF nbrs = <<>> THEN <<>>
  ELSE EdgesBetween(G, u, Head(nbrs)) \o FlattenEdges(G, u, Tail(nbrs))

\* G[u].items() unfolded: the out-edges of u, neighbour by neighbour
Adjacency(G, u) == FlattenEdges(G, u, Neighbors(G, u))

Return(v) == [kind |-> "return", value |-> v]
Raise(e) == [kind |-> "raise", value |-> e]

(***************************************************************************)
(* MovieGraph.query_entity_graph                                           *)
(***************************************************************************)
\* matches["id"].tolist(): the ids of the rows whose lowercased title is
\* the entity, in table order
TitleMatches(df, entity) ==
  LET hit == SelectSeq(df, LAMBDA row : Lower(row.title) = Lower(entity))
  IN [k \in 1..Len(hit) |-> PyInt(hit[k].id)]

\* the neighbors list of one result record, in adjacency order; an empty
\* or absent relation filters nothing
NeighborList(G, eid, relation) ==
  LET kept == SelectSeq(Adjacency(G, eid),
                        LAMBDA e : ~(relation # None /\ relation[1] # ""
                                     /\ e.relation # relation[1]))
  IN [k \in 1..Len(kept) |->
        [neighbor |-> kept[k].v, relation |-> kept[k].relation]]

\* lines 148-169: one record for every resolved id that is in the graph
EntityRecords(G, entity_ids, relation) ==
  LET found == SelectSeq(entity_ids, LAMBDA eid : HasNode(G, eid))
  IN [k \in 1..Len(found) |->
        [node |-> found[k],
         label |-> NodeData(G, found[k]).label,
         node_data |-> NodeData(G, found[k]),
         neighbors |-> NeighborList(G, found[k], relation)]]

query_entity_graph(df, G, entity, relation) ==
  IF IsInt(entity) /\ HasNode(G, entity)
    THEN Return(EntityRecords(G, <<entity>>, relation))
  ELSE IF IsInt(entity)
    \* entity.strip() on an int
    THEN Raise("AttributeError")
  ELSE LET e == Lower(Strip(entity[2]))
           matches == TitleMatches(df, e)
       IN IF matches # <<>> THEN Return(EntityRecords(G, matches, relation))
          ELSE IF HasNode(G, PyStr(e))
            THEN Return(EntityRecords(G, <<PyStr(e)>>, relation))
          ELSE Return(<<>>)

\* the record a tool returns in place of an exception
ErrorRecord(e) == [error |-> e]

\* QueryGraphTool.forward
query_graph_tool(df, G, entity, relation) ==
  LET r == query_entity_graph(df, G, entity, relation)
  IN IF r.kind = "raise" THEN Return(<<ErrorRecord(r.value)>>) ELSE r

(***************************************************************************)
(* FilterMoviesByPersonTool.forward                                        *)
(***************************************************************************)
\* the neighbours of the person that are labelled movie
PersonMovies(G, person) ==
  {n \in {Neighbors(G, person)[k] : k \in 1..Len(Neighbors(G, person))} :
     NodeData(G, n).label = Some("movie")}

\* a faulty filter that lists the person's movies instead of filtering ids
FilterByPersonAll(G, person_name, movie_ids) ==
  LET person == PyStr(Lower(Strip(person_name)))
      nbrs == IF HasNode(G, person) THEN Neighbors(G, person) ELSE <<>>
  IN Return(SelectSeq(nbrs, LAMBDA n : TRUE))

filter_movies_by_person_tool(G, person_name, movie_ids) ==
  LET person == PyStr(Lower(Strip(person_name)))
  IN IF ~HasNode(G, person) THEN Return(<<>>)
     \* mid in person_movies hashes mid
     ELSE IF \E k \in 1..Len(movie_ids) : ~IsHashable(movie_ids[k])
       THEN Raise("TypeError")
     ELSE Return(SelectSeq(movie_ids, LAMBDA mid : mid \in PersonMovies(G, person)))

(***************************************************************************)
(* MovieGraph.all_paths_query                                              *)
(***************************************************************************)
InSeq(x, s) == \E k \in 1..Len(s) : s[k] = x

RECURSIVE PathsAlong(_, _, _, _, _)
\* networkx.all_simple_paths on a multigraph, as a depth-first search: the
\* paths that extend path (which ends where the edges out start) to target
\* by at most cutoff edges in all, one per out-edge taken, a parallel edge
\* giving the same node path again
PathsAlong(G, path, out, target, cutoff) ==
  IF out = <<>> \/ Len(path) > cutoff THEN <<>>
  ELSE LET child == Head(out).v
           here ==
             IF InSeq(child, path) THEN <<>>
             ELSE IF child = target THEN <<Append(path, child)>>
             ELSE PathsAlong(G, Append(path, child), Adjacency(G, child),
                             target, cutoff)
       IN here \o PathsAlong(G, path, Tail(out), target, cutoff)

\* a faulty search that stops one edge too late
PathsBeyondCutoff(G, source, target, cutoff, trivial) ==
  IF source = target THEN (IF trivial THEN <<<<source>>>> ELSE <<>>)
  ELSE PathsAlong(G, <<source>>, Adjacency(G, source), target, cutoff + 1)

\* list(nx.all_simple_paths(G, source, target, cutoff)), for source and
\* target in G.  trivial: whether the installed networkx yields the path
\* [source] for source = target (3.x) or nothing (2.x)
AllSimplePaths(G, source, target, cutoff, trivial) ==
  IF source = target
    THEN (IF trivial /\ cutoff >= 0 THEN <<<<source>>>> ELSE <<>>)
  ELSE IF cutoff < 1 THEN <<>>
  ELSE PathsAlong(G, <<source>>, Adjacency(G, source), target, cutoff)

\* lines 189-210: the descriptor of node k of the path
NodeDict(G, path, k) ==
  LET node_info == NodeData(G, path[k])
  IN [node |-> path[k],
      label |-> node_info.label,
      title |-> IF node_info.label = Some("movie") THEN node_info.title ELSE None,
      roles |-> IF node_info.label = Some("person") THEN node_info.roles ELSE None,
      relation_to_next |->
        IF k < Len(path)
          THEN LET edge_infos == EdgesBetween(G, path[k], path[k + 1])
               IN Some([m \in 1..Len(edge_infos) |-> edge_infos[m].relation])
          ELSE None]

PathData(G, path) == [k \in 1..Len(path) |-> NodeDict(G, path, k)]

all_paths_query(G, node1, node2, max_len, trivial) ==
  IF ~HasNode(G, node1) \/ ~HasNode(G, node2) THEN Return(<<>>)
  ELSE LET paths == AllSimplePaths(G, node1, node2, max_len, trivial)
       IN Return([k \in 1..Len(paths) |-> PathData(G, paths[k])])

\* the default of max_len
DefaultMaxLen == 3

\* NearestGraphTool.forward: no exception arises for str arguments
nearest_graph_tool(G, entity1, entity2, trivial) ==
  all_paths_query(G, entity1, entity2, DefaultMaxLen, trivial)

(***************************************************************************)
(* MovieGraph.query_movie_id and QueryMovieIDTool.forward                  *)
(***************************************************************************)
\* movie_id not in self.Graph is true for a value that cannot be hashed
query_movie_id(G, movie_id) ==
  IF ~IsHashable(movie_id) \/ ~HasNode(G, movie_id) THEN None
  ELSE Some(NodeData(G, movie_id))

\* the attributes of a node that are set: an empty dictionary is falsy
IsEmptyDict(node_data) ==
  \A f \in {"label", "title", "launch_year", "roles"} : node_data[f] = None

\* forward has no try block; nothing in it raises
query_movie_id_tool(G, movie_id) ==
  LET node_data == query_movie_id(G, movie_id)
  IN IF node_data = None \/ IsEmptyDict(node_data[1])
       THEN Return(ErrorRecord("not found"))
       ELSE Return(node_data[1])

(***************************************************************************)
(* MovieGraph.shortest_path_query                                          *)
(***************************************************************************)
RECURSIVE Distance(_, _, _, _, _)
\* breadth-first search: the number of edges of a shortest directed path
\* from the frontier, which is d edges from the source, to target; None
\* when the search is exhausted
Distance(G, frontier, seen, target, d) ==
  IF target \in frontier THEN Some(d)
  ELSE LET next == {G.edges[k].v : k \in {m \in 1..Len(G.edges) :
                                             G.edges[m].u \in frontier}} \ seen
       IN IF next = {} THEN None
          ELSE Distance(G, next, seen \cup next, target, d + 1)

\* the node paths of nx.all_simple_paths with the cutoff, as a set
SimplePathSet(G, source, target, cutoff) ==
  LET paths == AllSimplePaths(G, source, target, cutoff, TRUE)
  IN {paths[k] : k \in 1..Len(paths)}

\* a faulty search that takes any simple path
AnyPaths(G, source, target) ==
  SimplePathSet(G, source, target, Len(G.nodes))

\* nx.shortest_path(G, source, target) for source and target in G: the
\* paths with the fewest edges, of which the search returns one; the empty
\* set stands for NetworkXNoPath
ShortestPaths(G, source, target) ==
  LET d == Distance(G, {source}, {source}, target, 0)
  IN IF d = None THEN {} ELSE SimplePathSet(G, source, target, d[1])

\* lines 227-242: the descriptor of node k of the path, which has no roles
ShortestNodeDict(G, path, k) ==
  LET node_info == NodeData(G, path[k])
  IN [node |-> path[k],
      label |-> node_info.label,
      title |-> IF node_info.label = Some("movie") THEN node_info.title ELSE None,
      relation_to_next |->
        IF k < Len(path)
          THEN LET edge_infos == EdgesBetween(G, path[k], path[k + 1])
               IN Some([m \in 1..Len(edge_infos) |-> edge_infos[m].relation])
          ELSE None]

PathWithRels(G, path) == [k \in 1..Len(path) |-> ShortestNodeDict(G, path, k)]

\* the outcomes of shortest_path_query: None for an absent endpoint and for
\* NetworkXNoPath, else the annotated path the search returned
shortest_path_query(G, source, target) ==
  IF ~HasNode(G, source) \/ ~HasNode(G, target) THEN {Return(None)}
  ELSE LET paths == ShortestPaths(G, source, target)
       IN IF paths = {} THEN {Return(None)}
          ELSE {Return(Some(PathWithRels(G, path))) : path \in paths}

(***************************************************************************)
(* MovieFAISS and FaissTool.forward.  The index is None or the number of   *)
(* vectors it holds; index_to_id is the list of the ids by position, the   *)
(* first position being 0.  The embedding of a text is not modelled: the   *)
(* ranking of the vectors for a query is any order of the positions.       *)
(***************************************************************************)
\* __init__ with update_embeddings false and an index file missing: load
\* returns without setting the index
Unloaded == [index |-> None, index_to_id |-> <<>>]

\* build_index: one vector and one mapping entry for every id given
Indexed(movie_ids) == [index |-> Some(Len(movie_ids)), index_to_id |-> movie_ids]

\* build_index(movies_df)
build_index(df) == Indexed([k \in 1..Len(df) |-> PyInt(df[k].id)])

\* the sequences of k distinct positions among 0..(n - 1)
Rankings(n, k) ==
  {r \in [1..k -> 0..(n - 1)] : \A a, b \in 1..k : r[a] = r[b] => a = b}

\* I[0] of index.search(query_emb, top_k): the nearest positions first, -1
\* in the places for which the index has no vector left
SearchPositions(ntotal, top_k) ==
  LET found == IF top_k < ntotal THEN top_k ELSE ntotal
  IN {r \o [k \in 1..(top_k - found) |-> -1] : r \in Rankings(ntotal, found)}

\* MovieFAISS.search: the outcomes for the rankings the embedding may give
search(faiss, top_k) ==
  IF faiss.index = None THEN {Raise("AttributeError")}
  ELSE {IF \E k \in 1..top_k : I[k] = -1
          THEN Raise("KeyError")
          ELSE Return([k \in 1..top_k |-> faiss.index_to_id[I[k] + 1]]) :
        I \in SearchPositions(faiss.index[1], top_k)}

\* the columns of a row that the model has, of those lines 144-150 copy
MovieJson(row) == [id |-> row.id, release_date |-> row.release_date]

\* lines 137-154: a record for every id found that is in the table
SearchResults(df, movie_ids) ==
  LET known == SelectSeq(movie_ids,
                         LAMBDA mid : \E k \in 1..Len(df) : PyInt(df[k].id) = mid)
  IN [k \in 1..Len(known) |->
        MovieJson(df[CHOOSE m \in 1..Len(df) : PyInt(df[m].id) = known[k]])]

\* FaissTool.forward
faiss_tool(faiss, df, top_k) ==
  {IF r.kind = "raise" THEN Return(<<ErrorRecord(r.value)>>)
   ELSE Return(SearchResults(df, r.value)) : r \in search(faiss, top_k)}

(***************************************************************************)
(* The joined table: rows with distinct ids and a release date.            *)
(***************************************************************************)
SeqsUpTo(S, n) == UNION {[1..k -> S] : k \in 0..n}

Al == <<"A","l">>
AlPadded == <<" ","A","L"," ">>
Bo == <<"B","o">>

\* a title, which is also the name of a person, and the same title written
\* with surrounding blanks
Titles == {Al, AlPadded}

Date1999 == <<"1","9","9","9","-","0","5","-","0","1">>
Date2000 == <<"2","0","0","0","-","0","1","-","0","1">>
ReleaseDates == {Date1999, Date2000}

Year1999 == <<"1","9","9","9">>
Year2000 == <<"2","0","0","0">>

Action == <<"A","c","t","i","o","n">>
GenreNames == {Action, Year2000}

CastNames == {Al, Bo}

CrewMembers ==
  { [name |-> AlPadded, job |-> <<"D","i","r","e","c","t","o","r">>],
    [name |-> Bo, job |-> <<" ","p","r","o","d","u","c","e","r">>],
    [name |-> Bo, job |-> <<"W","r","i","t","e","r">>],
    [name |-> Year2000, job |-> <<"E","d","i","t","o","r">>] }

\* the genre, cast and crew lists of a row that hold n records altogether
CreditsOf(n) ==
  UNION { [genres : [1..a -> GenreNames], cast : [1..b -> CastNames],
           crew : [1..(n - a - b) -> CrewMembers]] :
          <<a, b>> \in {p \in (0..n) \X (0..n) : p[1] + p[2] <= n} }

\* the rows with the id whose lists hold n records altogether
RowsOf(id, n) ==
  { [id |-> id, title |-> h[1], release_date |-> h[2],
     genres |-> c.genres, cast |-> c.cast, crew |-> c.crew] :
    h \in Titles \X ReleaseDates, c \in CreditsOf(n) }

\* the tables of at most n records altogether: no row, one row, or two
\* rows with distinct ids
TablesOver(r1, r2) == {<<>>, <<r1>>, <<r2>>, <<r1, r2>>}

(***************************************************************************)
(* build_graph as a process: pc is the block of the loop body that runs    *)
(* next for row i, j the position in the list that block iterates over.    *)
(***************************************************************************)
\* the first block at or after phase k (1 genres, 2 cast, 3 crew) that has
\* a record to iterate over; the pairing loops follow the crew loop
BlockFrom(row, k) ==
  IF k <= 1 /\ row.genres # <<>> THEN "genres"
  ELSE IF k <= 2 /\ row.cast # <<>> THEN "cast"
  ELSE IF k <= 3 /\ row.crew # <<>> THEN "crew"
  ELSE "pairs"

\* lines 36-54 for row i
StartRow ==
  /\ pc = "row"
  /\ Graph' = MovieStep(Graph, movies_df[i])
  /\ actor_nodes' = <<>>
  /\ director_nodes' = <<>>
  /\ j' = 1
  /\ pc' = BlockFrom(movies_df[i], 1)
  /\ UNCHANGED <<movies_df, i, builds, call, ret, movie_faiss>>

\* lines 58-62 for genre j of row i
GenreLoop ==
  /\ pc = "genres"
  /\ LET row == movies_df[i]
     IN /\ Graph' = GenreStep(Graph, row, row.genres[j])
        /\ IF j < Len(row.genres)
             THEN j' = j + 1 /\ pc' = pc
             ELSE j' = 1 /\ pc' = BlockFrom(row, 2)
  /\ UNCHANGED <<movies_df, i, actor_nodes, director_nodes, builds, call, ret, movie_faiss>>

\* lines 67-77 for cast record j of row i
CastLoop ==
  /\ pc = "cast"
  /\ LET row == movies_df[i]
     IN /\ Graph' = ActorStep(Graph, row, row.cast[j])
        /\ actor_nodes' = Append(actor_nodes, ActorName(row.cast[j]))
        /\ IF j < Len(row.cast)
             THEN j' = j + 1 /\ pc' = pc
             ELSE j' = 1 /\ pc' = BlockFrom(row, 3)
  /\ UNCHANGED <<movies_df, i, director_nodes, builds, call, ret, movie_faiss>>

\* lines 82-109 for crew record j of row i
CrewLoop ==
  /\ pc = "crew"
  /\ LET row == movies_df[i]
     IN /\ Graph' = CrewStep(Graph, row, row.crew[j])
        /\ director_nodes' = DirectorsAfter(director_nodes, row.crew[j])
        /\ IF j < Len(row.crew)
             THEN j' = j + 1 /\ pc' = pc
             ELSE j' = 1 /\ pc' = "pairs"
  /\ UNCHANGED <<movies_df, i, actor_nodes, builds, call, ret, movie_faiss>>

\* lines 111-118 for row i, then the next row or the end of build_graph
PairLoop ==
  /\ pc = "pairs"
  /\ Graph' = PairStep(Graph, actor_nodes, director_nodes)
  /\ IF i < Len(movies_df)
       THEN i' = i + 1 /\ pc' = "row"
       ELSE i' = i /\ pc' = "done"
  /\ UNCHANGED <<movies_df, j, actor_nodes, director_nodes, builds, call, ret, movie_faiss>>

Build == StartRow \/ GenreLoop \/ CastLoop \/ CrewLoop \/ PairLoop

\* build_graph called again on the constructed object
Rebuild ==
  /\ pc = "done"
  /\ movies_df # <<>>
  /\ builds < MaxBuilds
  /\ builds' = builds + 1
  /\ pc' = "row"
  /\ i' = 1
  /\ UNCHANGED <<movies_df, Graph, j, actor_nodes, director_nodes, call, ret,
               movie_faiss>>

(***************************************************************************)
(* The queries, made on the constructed object.  call is the operation and *)
(* its arguments, ret what it returned or raised.                          *)
(***************************************************************************)
Directors == <<"d","i","r","e","c","t","o","r","s">>
AlLower == <<"a","l">>

\* an id of the table, an id of no row, titles and names, a category label
Entities == {PyInt(1), PyInt(3), PyStr(Al), PyStr(Bo), PyStr(Directors)}
RelationFilters == {None, Some("MOVIE_HAS_ACTOR")}
PersonNames == {AlPadded, Bo, Year2000}
\* lists of ids, and lists in which an element is itself a list
MovieIdLists ==
  SeqsUpTo({PyInt(1), PyInt(2), PyInt(3)}, MaxIds)
    \cup {<<PyList(<<PyInt(1)>>)>>, <<PyInt(1), PyList(<<PyInt(1)>>)>>}
\* an id of the table, an id of no row, a name, a list
MovieIds == {PyInt(1), PyInt(3), PyStr(AlLower), PyList(<<PyInt(1)>>)}
PathNodes == {PyInt(1), PyInt(2), PyStr(AlLower), PyStr(Year2000)}
PathEntities == {PyStr(Al), PyStr(AlLower), PyStr(Year2000)}

\* the calls are synchronous: one is answered before the next is made
Answer(op, args, outcome) ==
  /\ pc = "done"
  /\ call = None
  /\ call' = Some([op |-> op, args |-> args])
  /\ ret' = Some(outcome)
  /\ UNCHANGED <<movies_df, Graph, pc, i, j, actor_nodes, director_nodes, builds,
               movie_faiss>>

QueryEntityGraph ==
  \E entity \in Entities, relation \in RelationFilters :
    Answer("query_entity_graph", <<entity, relation>>,
           query_entity_graph(movies_df, Graph, entity, relation))

QueryGraphTool ==
  \E entity \in Entities, relation \in RelationFilters :
    Answer("query_graph_tool", <<entity, relation>>,
           query_graph_tool(movies_df, Graph, entity, relation))

FilterMoviesByPersonTool ==
  \E person_name \in PersonNames, movie_ids \in MovieIdLists :
    Answer("filter_movies_by_person_tool", <<person_name, movie_ids>>,
           filter_movies_by_person_tool(Graph, person_name, movie_ids))

AllPathsQuery ==
  \E node1 \in PathNodes, node2 \in PathNodes, max_len \in 0..MaxHops,
     trivial \in BOOLEAN :
    Answer("all_paths_query", <<node1, node2, max_len>>,
           all_paths_query(Graph, node1, node2, max_len, trivial))

NearestGraphTool ==
  \E entity1 \in PathEntities, entity2 \in PathEntities, trivial \in BOOLEAN :
    Answer("nearest_graph_tool", <<entity1, entity2>>,
           nearest_graph_tool(Graph, entity1, entity2, trivial))

ShortestPathQuery ==
  \E source \in PathNodes, target \in PathNodes :
    \E outcome \in shortest_path_query(Graph, source, target) :
      Answer("shortest_path_query", <<source, target>>, outcome)

QueryMovieIDTool ==
  \E movie_id \in MovieIds :
    Answer("query_movie_id_tool", <<movie_id>>,
           query_movie_id_tool(Graph, movie_id))

\* the text of the query does not matter to the model
FaissTool ==
  \E top_k \in 1..MaxTopK :
    \E outcome \in faiss_tool(movie_faiss, movies_df, top_k) :
      Answer("faiss_tool", <<top_k>>, outcome)

\* the caller takes the answer
Resume ==
  /\ call # None
  /\ call' = None
  /\ ret' = None
  /\ UNCHANGED <<movies_df, Graph, pc, i, j, actor_nodes, director_nodes, builds,
               movie_faiss>>

Query ==
  \/ Resume
  \/ QueryEntityGraph
  \/ QueryGraphTool
  \/ FilterMoviesByPersonTool
  \/ AllPathsQuery
  \/ NearestGraphTool
  \/ QueryMovieIDTool
  \/ FaissTool

InitWith(n) ==
  /\ \E k1 \in 0..n : \E k2 \in 0..(n - k1) :
       \E r1 \in RowsOf(1, k1), r2 \in RowsOf(2, k2) :
         movies_df \in TablesOver(r1, r2)
  /\ Graph = EmptyGraph
  /\ pc = IF movies_df = <<>> THEN "done" ELSE "row"
  /\ i = 1
  /\ j = 1
  /\ actor_nodes = <<>>
  /\ director_nodes = <<>>
  /\ builds = 1
  /\ call = None
  /\ ret = None

\* the index files of an earlier run, made from a table with the ids 1, 3
StaleIds == <<PyInt(1), PyInt(3)>>

\* MovieFAISS.__init__ and lines 35-37 of MovieRAGAgent.__init__: the index
\* is built from the table, or loaded from the files, or left unset
FaissStates(df) == {Unloaded, Indexed(StaleIds), build_index(df)}

\* a MovieGraph made on its own, without an index
InitGraph(n) == InitWith(n) /\ movie_faiss = Unloaded

\* the construction of the graph and of the index, and the queries made on
\* them afterwards
Init == InitWith(MaxQueryCredits) /\ movie_faiss \in FaissStates(movies_df)

Next == Build \/ Query

Spec == Init /\ [][Next]_vars

\* the construction alone, over larger tables
InitBuild == InitGraph(MaxCredits)

SpecBuild == InitBuild /\ [][Build]_vars

\* the construction, and build_graph called again on the same table
NextRebuild == Build \/ Rebuild

SpecRebuild == Init /\ [][NextRebuild]_vars

\* the path queries over tables with enough credits for two movies to
\* share a person as well as a year
InitPaths == InitGraph(MaxPathCredits)

PathQuery == Resume \/ AllPathsQuery \/ ShortestPathQuery

NextPaths == Build \/ PathQuery

SpecPaths == InitPaths /\ [][NextPaths]_vars

(***************************************************************************)
(* Properties of the constructed graph.                                    *)
(***************************************************************************)
Edges == Graph.edges
EdgeIndex == 1..Len(Graph.edges)
NodeIndex == 1..Len(Graph.nodes)

\* no row is in progress
RowBoundary == pc \in {"row", "done"}

\* the rows processed so far, at a row boundary
RowsDone == IF pc = "done" THEN movies_df ELSE SubSeq(movies_df, 1, i - 1)

\* C1: after build_graph every movie node has exactly one outgoing
\* MOVIE_RELEASED_ON edge; it points to the node of the movie's year, and
\* that node has a YEAR_RELEASED_MOVIES edge back to the movie.
C1_OneReleaseEdge ==
  pc = "done" =>
    \A k \in NodeIndex :
      Graph.nodes[k].label = Some("movie") =>
        LET movie == Graph.nodes[k].id
            out == {e \in EdgeIndex : /\ Edges[e].u = movie
                                      /\ Edges[e].relation = "MOVIE_RELEASED_ON"}
        IN /\ Cardinality(out) = 1
           /\ \A e \in out :
                /\ Edges[e].v = PyStr(Graph.nodes[k].launch_year[1])
                /\ HasNode(Graph, Edges[e].v)
                /\ CountEdges(Graph, Edges[e].v, movie, "YEAR_RELEASED_MOVIES") >= 1

\* two movies of the same year have been ingested
C1_Witness ==
  /\ pc = "done"
  /\ Len(movies_df) = 2
  /\ LaunchYear(movies_df[1]) = LaunchYear(movies_df[2])
  /\ CountEdges(Graph, PyInt(2), PyStr(LaunchYear(movies_df[2])),
                "MOVIE_RELEASED_ON") = 1

\* C2: at every row boundary the edges come in forward/inverse pairs: for
\* each pair of the enum and all nodes u, v there are as many edges v -> u
\* with the inverse relation as edges u -> v with the forward relation, and
\* every edge carries one of the 16 relation names.
C2_PairedEdges ==
  RowBoundary =>
    /\ \A e \in EdgeIndex : Edges[e].relation \in Relations
    /\ \A p \in RelationPairs : \A u \in NodeIds(Graph), v \in NodeIds(Graph) :
         CountEdges(Graph, u, v, p[1]) = CountEdges(Graph, v, u, p[2])

\* a row with a writer and a worked-with pair has been processed
C2_Witness ==
  /\ pc = "done"
  /\ \E e \in EdgeIndex : Edges[e].relation = "WROTE_MOVIES"
  /\ \E e \in EdgeIndex : Edges[e].relation = "DIRECTOR_WORKED_WITH_ACTOR"

\* the distinct actor names and director names of a row
DistinctActors(row) == {ActorName(row.cast[k]) : k \in 1..Len(row.cast)}
DistinctDirectors(row) ==
  {CrewName(row.crew[k]) :
     k \in {m \in 1..Len(row.crew) : JobOf(row.crew[m]) = "director"}}

RECURSIVE SumPairs(_)
\* the size of the actor x director cross-products of the rows, summed
SumPairs(rows) ==
  IF rows = <<>> THEN 0
  ELSE Cardinality(DistinctActors(Head(rows)))
         * Cardinality(DistinctDirectors(Head(rows)))
       + SumPairs(Tail(rows))

\* C3: each row adds one ACTOR_WORKED_WITH_DIRECTOR edge for each element of
\* the cross-product of its distinct actor names and distinct director
\* names, so that after the rows processed so far the graph holds as many
\* such edges as these cross-products have elements.
C3_OnePairPerDistinctNames ==
  RowBoundary =>
    Cardinality({e \in EdgeIndex :
                   Edges[e].relation = "ACTOR_WORKED_WITH_DIRECTOR"})
      = SumPairs(RowsDone)

\* the graph as the claim compares it: the nodes with their attributes and
\* the multiset of labelled edges
GraphView(G) ==
  [nodes |-> {G.nodes[k] : k \in 1..Len(G.nodes)},
   edges |-> {<<G.edges[k], CountEdges(G, G.edges[k].u, G.edges[k].v,
                                       G.edges[k].relation)>> :
                k \in 1..Len(G.edges)}]

\* the rows of the table in every order
Orderings(rows) ==
  {[k \in 1..Len(rows) |-> rows[f[k]]] : f \in Permutations(1..Len(rows))}

\* C4: the final graph does not depend on the order of the rows: every
\* ordering of the table's rows yields the graph that build_graph produced.
C4_OrderIndependent ==
  pc = "done" =>
    \A rows \in Orderings(movies_df) : GraphView(BuildGraph(rows)) = GraphView(Graph)

\* no two entries of the node dictionary have the same identifier
NoDuplicateNodes ==
  \A a \in NodeIndex, b \in NodeIndex :
    Graph.nodes[a].id = Graph.nodes[b].id => a = b

\* C5: while and after the rows are ingested a second time the graph has
\* the nodes it had after the first time, one per identifier: no movie,
\* date, genre or person node is created again.  (The edges are added
\* again, as parallel duplicates.)
C5_ReingestKeepsNodes ==
  /\ NoDuplicateNodes
  /\ builds > 1 =>
       /\ Len(Graph.nodes) = Len(BuildGraph(movies_df).nodes)
       /\ NodeIds(Graph) = NodeIds(BuildGraph(movies_df))
       /\ Len(Graph.edges) >= Len(BuildGraph(movies_df).edges)

\* a table with a genre or a person has been ingested twice, and every edge
\* of the first time has a parallel duplicate
C5_Witness ==
  /\ builds = 2
  /\ pc = "done"
  /\ \E k \in NodeIndex : Graph.nodes[k].label \in {Some("genre"), Some("person")}
  /\ Len(Graph.edges) = 2 * Len(BuildGraph(movies_df).edges)
  /\ \A e \in EdgeIndex :
       CountEdges(Graph, Edges[e].u, Edges[e].v, Edges[e].relation) >= 2

\* the roles stored for node n: the empty set when it stores none
RolesOf(G, n) == IF NodeData(G, n).roles = None THEN {} ELSE NodeData(G, n).roles[1]

\* C6: in every step every node stays in the graph and keeps the roles it
\* has, and the roles it has after the step are among actor, director,
\* producer, writer and supporting_crew.
C6_RolesOnlyGrow ==
  [][\A n \in NodeIds(Graph) :
       /\ HasNode(Graph', n)
       /\ RolesOf(Graph, n) \subseteq RolesOf(Graph', n)
       /\ RolesOf(Graph', n) \subseteq Roles]_vars

\* a person has gathered two roles
C6_Witness ==
  \E k \in NodeIndex :
    /\ Graph.nodes[k].label = Some("person")
    /\ Cardinality(RolesOf(Graph, Graph.nodes[k].id)) >= 2

(***************************************************************************)
(* Properties of the queries.                                              *)
(***************************************************************************)
Called(op) == call # None /\ call[1].op = op
Args == call[1].args
Outcome == ret[1]

\* the movie nodes whose title attribute is the text
MoviesTitled(text) ==
  {Graph.nodes[k].id :
     k \in {m \in NodeIndex : /\ Graph.nodes[m].label = Some("movie")
                              /\ Graph.nodes[m].title = Some(text)}}

\* the entity names no node: an int that is no node, or a string that is
\* neither the title of a movie node nor a node identifier
ResolvesToNothing(entity) ==
  IF IsInt(entity) THEN ~HasNode(Graph, entity)
  ELSE /\ MoviesTitled(Lower(Strip(entity[2]))) = {}
       /\ ~HasNode(Graph, PyStr(Lower(Strip(entity[2]))))

\* C7: query_entity_graph and the query_graph tool return the empty list,
\* and neither raise nor return an error record, for an entity that
\* resolves to nothing, be it a string or an int.
C7_NothingFoundIsEmpty ==
  (Called("query_entity_graph") \/ Called("query_graph_tool")) =>
    (ResolvesToNothing(Args[1]) => Outcome = Return(<<>>))

\* the nodes of the records of a result, in order
ResultNodes(records) == [k \in 1..Len(records) |-> records[k].node]

\* C8: for a string, query_entity_graph returns one record for every movie
\* node whose title attribute is the trimmed lowercased string, and only if
\* there is no such movie the one record of the node whose identifier is
\* that string.
C8_TitleThenIdentifier ==
  (Called("query_entity_graph") /\ ~IsInt(Args[1])) =>
    LET text == Lower(Strip(Args[1][2]))
        movies == MoviesTitled(text)
    IN /\ Outcome.kind = "return"
       /\ movies # {} =>
            /\ Len(Outcome.value) = Cardinality(movies)
            /\ {Outcome.value[k].node : k \in 1..Len(Outcome.value)} = movies
       /\ (movies = {} /\ HasNode(Graph, PyStr(text))) =>
            ResultNodes(Outcome.value) = <<PyStr(text)>>

RECURSIVE IsSubsequence(_, _)
\* a is b with some elements left out
IsSubsequence(a, b) ==
  IF a = <<>> THEN TRUE
  ELSE IF b = <<>> THEN FALSE
  ELSE IF Head(a) = Head(b) THEN IsSubsequence(Tail(a), Tail(b))
  ELSE IsSubsequence(a, Tail(b))

\* C9: filter_movies_by_person returns a subsequence of the integer ids it
\* is given; every id returned is a movie node with an edge to it from the node
\* of the trimmed lowercased person name; without that node the result is
\* empty.
C9_FilterIsSubsequence ==
  (/\ Called("filter_movies_by_person_tool")
   /\ \A k \in 1..Len(Args[2]) : IsInt(Args[2][k])) =>
    LET person == PyStr(Lower(Strip(Args[1])))
        result == Outcome.value
    IN /\ Outcome.kind = "return"
       /\ IsSubsequence(result, Args[2])
       /\ \A k \in 1..Len(result) :
            /\ HasNode(Graph, result[k])
            /\ NodeData(Graph, result[k]).label = Some("movie")
            /\ \E e \in EdgeIndex : Edges[e].u = person /\ Edges[e].v = result[k]
       /\ ~HasNode(Graph, person) => result = <<>>

\* of three ids given, the two that are movies of the person are returned,
\* in the order given
C9_Witness ==
  /\ Called("filter_movies_by_person_tool")
  /\ Len(Args[2]) > Len(Outcome.value)
  /\ Outcome.value = <<PyInt(2), PyInt(1)>>

IsDirectedPath(G, descriptors) ==
  \A k \in 1..(Len(descriptors) - 1) :
    EdgesBetween(G, descriptors[k].node, descriptors[k + 1].node) # <<>>

\* every simple path from a to b, whatever its length
EverySimplePath(G, a, b) == SimplePathSet(G, a, b, Len(G.nodes))

\* C11: shortest_path_query(A, A) for a node A returns the path of no edge
\* that holds only A; it returns None, and raises nothing, when an endpoint
\* is not in the graph or the target cannot be reached along directed
\* edges; otherwise it returns a directed path from A to B that has the
\* fewest edges of all directed paths from A to B.
C11_ShortestPath ==
  Called("shortest_path_query") =>
    LET a == Args[1]
        b == Args[2]
    IN /\ Outcome.kind = "return"
       /\ IF ~HasNode(Graph, a) \/ ~HasNode(Graph, b)
               \/ EverySimplePath(Graph, a, b) = {}
            THEN Outcome.value = None
            ELSE /\ Outcome.value # None
                 /\ LET path == Outcome.value[1]
                    IN /\ path[1].node = a
                       /\ path[Len(path)].node = b
                       /\ IsDirectedPath(Graph, path)
                       /\ a = b => Len(path) = 1
                       /\ \A other \in EverySimplePath(Graph, a, b) :
                            Len(path) <= Len(other)

\* C11 witness: a shortest path of one edge was returned between two nodes
\* that are also joined by a simple path of three edges
C11_Witness ==
  /\ Called("shortest_path_query")
  /\ Outcome.value # None
  /\ Len(Outcome.value[1]) = 2
  /\ \E other \in EverySimplePath(Graph, Args[1], Args[2]) : Len(other) = 4

\* the five operations of the tool surface
ToolOps ==
  {"query_graph_tool", "query_movie_id_tool", "nearest_graph_tool",
   "faiss_tool", "filter_movies_by_person_tool"}

\* C12: no call of a tool's forward, whatever its arguments, ends by
\* raising an exception to the caller: each of the five tools returns a
\* value (an error record where its query raised).
C12_ToolsNeverRaise ==
  (call # None /\ call[1].op \in ToolOps) => Outcome.kind = "return"

\* C13: when the index was never built or loaded, or holds no vector,
\* faiss_tool returns the empty list for every query: it raises nothing and
\* returns no error record.
C13_NoIndexIsEmptyList ==
  (/\ Called("faiss_tool")
   /\ (movie_faiss.index = None \/ movie_faiss.index = Some(0))) =>
    Outcome = Return(<<>>)

\* the names of the cast and crew records of the table
IngestedNames ==
  UNION {{movies_df[r].cast[k] : k \in 1..Len(movies_df[r].cast)}
           \cup {movies_df[r].crew[k].name : k \in 1..Len(movies_df[r].crew)} :
         r \in 1..Len(movies_df)}

\* the nodes of an entity: the movies of the table with that title and the
\* person ingested under that name
EntityNodes(entity) ==
  {PyInt(movies_df[r].id) : r \in {m \in 1..Len(movies_df) :
                                     movies_df[m].title = entity[2]}}
    \cup {PyStr(Lower(Strip(name))) : name \in IngestedNames \cap {entity[2]}}

\* C14: nearest_graph_tool(entity1, entity2), each entity the title of a
\* movie of the table or the name of a person of the table, returns every
\* simple path of at most 3 edges from a node of entity1 to a node of
\* entity2, so the result is not empty when there is such a path.
C14_NearestPathBetweenEntities ==
  Called("nearest_graph_tool") =>
    \A a \in EntityNodes(Args[1]), b \in EntityNodes(Args[2]) :
      a # b =>
        \A path \in SimplePathSet(Graph, a, b, DefaultMaxLen) :
          /\ Outcome.kind = "return"
          /\ InSeq(PathData(Graph, path), Outcome.value)

\* the descriptor has the node and its label, the title of a movie and the
\* roles of a person
HasDescriptorFields(G, descriptor) ==
  /\ {"node", "label"} \subseteq DOMAIN descriptor
  /\ descriptor.label = NodeData(G, descriptor.node).label
  /\ descriptor.label = Some("movie") =>
       /\ "title" \in DOMAIN descriptor
       /\ descriptor.title = NodeData(G, descriptor.node).title
  /\ descriptor.label = Some("person") =>
       /\ "roles" \in DOMAIN descriptor
       /\ descriptor.roles = NodeData(G, descriptor.node).roles

\* the annotated paths in the answer of a path query
ReturnedPaths ==
  IF Called("all_paths_query")
    THEN {Outcome.value[k] : k \in 1..Len(Outcome.value)}
  ELSE IF Called("shortest_path_query") /\ Outcome.value # None
    THEN {Outcome.value[1]}
  ELSE {}

\* C15: in every path that all_paths_query or shortest_path_query returns,
\* every node but the last carries the set of the relation names of the
\* parallel edges to the next node, exactly those names and each of them
\* once, and both operations give every node the same descriptor fields:
\* node, label, the title of a movie, the roles of a person.
C15_HopsCarryRelationSets ==
  \A path \in ReturnedPaths : \A k \in 1..Len(path) :
    /\ HasDescriptorFields(Graph, path[k])
    /\ k < Len(path) =>
         LET rels == path[k].relation_to_next[1]
             hop == EdgesBetween(Graph, path[k].node, path[k + 1].node)
         IN /\ {rels[m] : m \in 1..Len(rels)}
                 = {hop[m].relation : m \in 1..Len(hop)}
            /\ \A m, n \in 1..Len(rels) : rels[m] = rels[n] => m = n

\* the label that the target of an edge with the relation is given when
\* the edge is added
TargetLabel(relation) ==
  IF relation = "MOVIE_RELEASED_ON" THEN Some("date")
  ELSE IF relation = "MOVIE_HAS_GENRE" THEN Some("genre")
  ELSE Some("person")

MovieToTarget ==
  {"MOVIE_RELEASED_ON", "MOVIE_HAS_GENRE", "MOVIE_HAS_ACTOR",
   "MOVIE_HAS_DIRECTOR", "MOVIE_HAS_PRODUCER", "MOVIE_HAS_WRITER",
   "MOVIE_HAS_SUPPORTING_CREW"}

\* C16: while build_graph runs and after it, the labels of the nodes agree
\* with the relations of the edges: every node has one label among movie,
\* person, genre and date; the target of every MOVIE_RELEASED_ON edge is
\* labelled date, of every MOVIE_HAS_GENRE edge genre, of every edge from a
\* movie to a member of its cast or crew person; only nodes labelled person
\* have roles.  A label that changed after it was set shows as an edge whose
\* target bears another label than the one it was added with.
C16_LabelsAgreeWithRelations ==
  /\ \A n \in NodeIndex :
       /\ Graph.nodes[n].label
            \in {Some("movie"), Some("person"), Some("genre"), Some("date")}
       /\ Graph.nodes[n].roles # None => Graph.nodes[n].label = Some("person")
  /\ \A e \in EdgeIndex :
       Edges[e].relation \in MovieToTarget =>
         NodeData(Graph, Edges[e].v).label = TargetLabel(Edges[e].relation)
====
